---- MODULE Spec2Model ----
(***************************************************************************)
(* State-machine model of scripts/stitch_r2_videos.py: the pipeline driver *)
(* main() and the ordering policy (sort mode, manifest, reorder_clips).    *)
(* Storage keys and file names are strings; the string functions the code  *)
(* relies on (str.lower, str.startswith, str.endswith, str.lstrip,         *)
(* Path.name, the ordering of str) are computed character by character.    *)
(***************************************************************************)
EXTENDS Integers, Sequences, FiniteSets, TLC

\* ------------------------------------------------------------------ bounds
\* Largest number of objects the store returns for one listing.
MaxListing == 6
\* LastModified timestamps are drawn from 1..MaxTime.
MaxTime == 2
\* Largest number of data rows in manifest.csv.
MaxRows == 6

\* ------------------------------------------------------- module constants
BUCKET == "bkt"
INTRO_IMAGE_NAME == "intro-image.png"
FIRST_VIDEO_ORDER ==
    << "max-2025-10-23_16-40-07.mov",
       "hayes-2025-10-23_16-41-10.mov",
       "mace-2025-10-23_16-40-44.mov" >>
LAST_VIDEO_NAME == "mom-and-dad-2025-10-28_23-26-34.mov"
keep_ext == << ".mp4", ".mov", ".m4v", ".webm", ".mkv", ".avi", ".3gp" >>

\* Python's None.
None == "<None>"

\* ---------------------------------------------------------------- strings
\* Printable ASCII in code point order: AsciiLo is 32..95, AsciiHi is 97..126
\* (code point 96 cannot be written in a string here and occurs in no key).
AsciiLo == " !\"#$%&'()*+,-./0123456789:;<=>?@ABCDEFGHIJKLMNOPQRSTUVWXYZ[\\]^_"
AsciiHi == "abcdefghijklmnopqrstuvwxyz{|}~"
CharAt(s, i) == SubSeq(s, i, i)
AsciiChars ==
    { CharAt(AsciiLo, i) : i \in 1..Len(AsciiLo) } \cup { CharAt(AsciiHi, i) : i \in 1..Len(AsciiHi) }
\* ord(c)
OrdOf ==
    [ c \in AsciiChars |->
        IF \E i \in 1..Len(AsciiLo) : CharAt(AsciiLo, i) = c
        THEN 31 + (CHOOSE i \in 1..Len(AsciiLo) : CharAt(AsciiLo, i) = c)
        ELSE 96 + (CHOOSE i \in 1..Len(AsciiHi) : CharAt(AsciiHi, i) = c) ]
Ord(c) == OrdOf[c]
\* chr(n)
Chr(n) == IF n <= 95 THEN CharAt(AsciiLo, n - 31) ELSE CharAt(AsciiHi, n - 96)
\* c.lower() for one character
LowerOf ==
    [ c \in AsciiChars |->
        IF Ord(c) >= Ord("A") /\ Ord(c) <= Ord("Z")
        THEN Chr(Ord(c) + (Ord("a") - Ord("A")))
        ELSE c ]

RECURSIVE LowerChars(_)
\* str.lower(), character by character
LowerChars(s) == IF s = "" THEN "" ELSE LowerOf[Head(s)] \o LowerChars(Tail(s))

\* str.startswith(p)
StartsWith(s, p) == Len(p) <= Len(s) /\ SubSeq(s, 1, Len(p)) = p

\* str.endswith(p)
EndsWith(s, p) == Len(p) <= Len(s) /\ SubSeq(s, Len(s) - Len(p) + 1, Len(s)) = p

RECURSIVE LStrip(_, _)
\* str.lstrip(c) for a one-character c
LStrip(s, c) == IF s # "" /\ Head(s) = c THEN LStrip(Tail(s), c) ELSE s

RECURSIVE RStrip(_, _)
\* str.rstrip(c) for a one-character c
RStrip(s, c) ==
    IF s # "" /\ CharAt(s, Len(s)) = c THEN RStrip(SubSeq(s, 1, Len(s) - 1), c) ELSE s

RECURSIVE StrLess(_, _)
\* a < b on str: lexicographic by code point, a proper prefix is smaller.
StrLess(a, b) ==
    IF b = "" THEN FALSE
    ELSE IF a = "" THEN TRUE
    ELSE IF Head(a) = Head(b) THEN StrLess(Tail(a), Tail(b))
    ELSE Ord(Head(a)) < Ord(Head(b))

RECURSIVE LastSlash(_, _)
\* Index of the last "/" of s at or before position i, 0 when there is none.
LastSlash(s, i) ==
    IF i = 0 THEN 0
    ELSE IF CharAt(s, i) = "/" THEN i
    ELSE LastSlash(s, i - 1)

\* Path(key).name: the final path component (trailing slashes dropped).
PathNameChars(key) ==
    LET t == RStrip(key, "/")
    IN  SubSeq(t, LastSlash(t, Len(t)) + 1, Len(t))

\* --------------------------------------------------------- key universe
\* Keys the store may hold under the prefix u/: the four clips the positional
\* override names, two clips whose keys differ only in letter case, and the
\* intro image.
StoreKeys ==
    { "u/" \o FIRST_VIDEO_ORDER[i] : i \in 1..Len(FIRST_VIDEO_ORDER) }
        \cup { "u/" \o LAST_VIDEO_NAME, "u/z.mov", "u/Z.MOV", "u/" \o INTRO_IMAGE_NAME }

\* Rows a manifest.csv may hold, as csv.DictReader yields them.
ManifestRowInputs ==
    { [ key |-> "u/" \o FIRST_VIDEO_ORDER[1], Key |-> None, display_name |-> "Max", name |-> None ],
      [ key |-> None, Key |-> "u/" \o FIRST_VIDEO_ORDER[2], display_name |-> "", name |-> "Hayes" ],
      [ key |-> "u/" \o FIRST_VIDEO_ORDER[3], Key |-> "u/z.mov", display_name |-> None, name |-> None ],
      [ key |-> "", Key |-> "u/" \o LAST_VIDEO_NAME, display_name |-> "Mom and Dad", name |-> "M" ],
      [ key |-> "u/old/" \o FIRST_VIDEO_ORDER[1], Key |-> None, display_name |-> None, name |-> "Al" ],
      [ key |-> "", Key |-> None, display_name |-> "Nobody", name |-> None ] }

\* The keys that occur in the inputs. str.lower() and Path.name of these are
\* computed once and looked up afterwards.
KnownKeys ==
    StoreKeys \cup { r.key : r \in ManifestRowInputs } \cup { r.Key : r \in ManifestRowInputs }
LowerTable == [ k \in KnownKeys |-> LowerChars(k) ]
PathNameTable == [ k \in KnownKeys |-> PathNameChars(k) ]

\* str.lower()
Lower(s) == IF s \in KnownKeys THEN LowerTable[s] ELSE LowerChars(s)

\* Path(key).name
PathName(key) == IF key \in KnownKeys THEN PathNameTable[key] ELSE PathNameChars(key)

\* ------------------------------------------------------------ sequences
\* list.pop(idx) seen from the list: s without its i-th element.
RemoveAt(s, i) == SubSeq(s, 1, i - 1) \o SubSeq(s, i + 1, Len(s))

\* The comparison list.sort makes between two sort keys: strings (as_str) or
\* numbers.
KeyLess(a, b, as_str) == IF as_str THEN StrLess(a, b) ELSE a < b

RECURSIVE InsertByKey(_, _, _, _)
\* x placed before the first element of acc from position i on whose key is
\* strictly greater than its own, at the end if there is none.
InsertByKey(acc, x, i, as_str) ==
    IF i > Len(acc) THEN Append(acc, x)
    ELSE IF KeyLess(x.k, acc[i].k, as_str)
         THEN SubSeq(acc, 1, i - 1) \o << x >> \o SubSeq(acc, i, Len(acc))
         ELSE InsertByKey(acc, x, i + 1, as_str)

RECURSIVE SortFrom(_, _, _, _)
SortFrom(decorated, i, acc, as_str) ==
    IF i > Len(decorated) THEN acc
    ELSE SortFrom(decorated, i + 1, InsertByKey(acc, decorated[i], 1, as_str), as_str)

\* list.sort(key=...): s in ascending order of keys, where keys[i] is the sort
\* key of s[i]. The sort is stable: elements with equal keys keep the order
\* they had in s.
StableSortBy(s, keys, as_str) ==
    LET decorated == [ i \in 1..Len(s) |-> [ k |-> keys[i], v |-> s[i] ] ]
        sorted    == SortFrom(decorated, 1, << >>, as_str)
    IN  [ i \in 1..Len(s) |-> sorted[i].v ]

\* -------------------------------------------------------- ordering policy
\* list_video_keys: of the objects the paginator yields, in its order, those
\* whose lower-cased key ends with a recognised video extension.
HasVideoExt(key) ==
    LET low == Lower(key) IN \E e \in 1..Len(keep_ext) : EndsWith(low, keep_ext[e])
list_video_keys(listing) == SelectSeq(listing, LAMBDA obj : HasVideoExt(obj.Key))

\* The sort by name if the keys were compared as they are, without lower().
SortByNameCaseSensitive(objects) ==
    StableSortBy(objects, [ i \in 1..Len(objects) |-> objects[i].Key ], TRUE)

\* objects.sort(key=lambda x: x["Key"].lower())
SortByName(objects) ==
    StableSortBy(objects, [ i \in 1..Len(objects) |-> Lower(objects[i].Key) ], TRUE)

\* The sort by time if it put the latest object first.
SortByLastModifiedDescending(objects) ==
    StableSortBy(objects, [ i \in 1..Len(objects) |-> 0 - objects[i].LastModified ], FALSE)

\* The sort by time if it were left out.
SortByLastModifiedOmitted(objects) == objects

\* objects.sort(key=lambda x: x["LastModified"])
SortByLastModified(objects) ==
    StableSortBy(objects, [ i \in 1..Len(objects) |-> objects[i].LastModified ], FALSE)

\* The sort main() applies to the listing for a sort mode.
SortObjects(objects, mode) ==
    IF mode = "name" THEN SortByName(objects) ELSE SortByLastModified(objects)

\* ordered = [{"Key": o["Key"], "Display": ""} for o in objects]
OrderedOfObjects(objects) ==
    [ i \in 1..Len(objects) |-> [ Key |-> objects[i].Key, Display |-> "" ] ]

RECURSIVE MatchFrom(_, _, _)
MatchFrom(items, filename, i) ==
    IF i > Len(items) THEN 0
    ELSE IF PathName(items[i].Key) = filename THEN i
    ELSE MatchFrom(items, filename, i + 1)

\* match_key_by_name: the position (from 1) of the first item whose base name
\* is exactly filename, 0 for (None, None).
match_key_by_name(items, filename) == MatchFrom(items, filename, 1)

RECURSIVE PullFirstSkipping(_, _, _)
\* The loop over FIRST_VIDEO_ORDER if a missing name were passed over silently.
PullFirstSkipping(working, result, i) ==
    IF i > Len(FIRST_VIDEO_ORDER) THEN [ ok |-> TRUE, working |-> working, result |-> result ]
    ELSE LET idx == match_key_by_name(working, FIRST_VIDEO_ORDER[i])
         IN  IF idx = 0
             THEN PullFirstSkipping(working, result, i + 1)
             ELSE PullFirstSkipping(RemoveAt(working, idx), Append(result, working[idx]), i + 1)

RECURSIVE PullFirst(_, _, _)
\* The loop over FIRST_VIDEO_ORDER from its i-th entry on.
PullFirst(working, result, i) ==
    IF i > Len(FIRST_VIDEO_ORDER) THEN [ ok |-> TRUE, working |-> working, result |-> result ]
    ELSE LET idx == match_key_by_name(working, FIRST_VIDEO_ORDER[i])
         IN  IF idx = 0
             THEN [ ok |-> FALSE, working |-> working, result |-> result ]
             ELSE PullFirst(RemoveAt(working, idx), Append(result, working[idx]), i + 1)

\* reorder_clips if the last clip were appended without being popped from
\* the working list.
reorder_clips_last_not_popped(ordered) ==
    LET first == PullFirst(ordered, << >>, 1)
        idx   == match_key_by_name(first.working, LAST_VIDEO_NAME)
    IN  IF ~first.ok THEN [ ok |-> FALSE, result |-> << >> ]
        ELSE IF idx = 0 THEN [ ok |-> FALSE, result |-> << >> ]
        ELSE [ ok |-> TRUE,
               result |-> first.result \o first.working \o << first.working[idx] >> ]

\* reorder_clips: ok = FALSE stands for sys.exit(1).
reorder_clips(ordered) ==
    LET first == PullFirst(ordered, << >>, 1)
        idx   == match_key_by_name(first.working, LAST_VIDEO_NAME)
    IN  IF ~first.ok THEN [ ok |-> FALSE, result |-> << >> ]
        ELSE IF idx = 0 THEN [ ok |-> FALSE, result |-> << >> ]
        ELSE [ ok |-> TRUE,
               result |-> first.result \o RemoveAt(first.working, idx)
                            \o << first.working[idx] >> ]

\* ------------------------------------------------------------ formatting
Digits == "0123456789"

RECURSIVE Decimal(_)
\* str(n) for n >= 0
Decimal(n) ==
    IF n < 10 THEN CharAt(Digits, n + 1)
    ELSE Decimal(n \div 10) \o CharAt(Digits, (n % 10) + 1)

RECURSIVE ZeroPad(_, _)
ZeroPad(s, width) == IF Len(s) >= width THEN s ELSE ZeroPad("0" \o s, width)

\* f"{idx:03d}"
Fmt03d(n) == ZeroPad(Decimal(n), 3)

\* The characters shlex.quote leaves alone: [A-Za-z0-9_@%+=:,./-]
ShlexSafe(c) ==
    \/ Ord(c) >= Ord("a") /\ Ord(c) <= Ord("z")
    \/ Ord(c) >= Ord("A") /\ Ord(c) <= Ord("Z")
    \/ Ord(c) >= Ord("0") /\ Ord(c) <= Ord("9")
    \/ c \in { "_", "@", "%", "+", "=", ":", ",", ".", "/", "-" }

RECURSIVE ReplaceQuote(_)
\* s.replace("'", "'\"'\"'")
ReplaceQuote(s) ==
    IF s = "" THEN ""
    ELSE (IF Head(s) = "'" THEN "'\"'\"'" ELSE Head(s)) \o ReplaceQuote(Tail(s))

\* shlex.quote
ShlexQuote(s) ==
    IF s = "" THEN "''"
    ELSE IF \A i \in 1..Len(s) : ShlexSafe(CharAt(s, i)) THEN s
    ELSE "'" \o ReplaceQuote(s) \o "'"

\* write_concat_list: the lines written to filelist.txt.
write_concat_list(parts_) == [ i \in 1..Len(parts_) |-> "file " \o ShlexQuote(parts_[i]) ]

\* ----------------------------------------------------------------- prefix
\* normalize_prefix
normalize_prefix(pfx, bucket) ==
    LET variants == << "s3://" \o bucket \o "/", bucket \o "/", "/" \o bucket \o "/" >>
        hits     == { v \in 1..Len(variants) : StartsWith(pfx, variants[v]) }
        first    == CHOOSE v \in hits : \A w \in hits : v <= w
        cut      == IF hits = {} THEN pfx
                    ELSE SubSeq(pfx, Len(variants[first]) + 1, Len(pfx))
        stripped == LStrip(cut, "/")
    IN  IF pfx = "" THEN ""
        ELSE IF stripped # "" /\ ~EndsWith(stripped, "/") THEN stripped \o "/"
        ELSE stripped

\* --------------------------------------------------------------- manifest
\* Truthiness of an optional string (None and "" are falsy).
Truthy(x) == x # None /\ x # ""

\* a or b
Or(a, b) == IF Truthy(a) THEN a ELSE b

\* The key read_manifest asks the store for.
ManifestKey(prefix) ==
    IF ~EndsWith(prefix, "manifest.csv") THEN RStrip(prefix, "/") \o "/manifest.csv" ELSE prefix

\* The loop of read_manifest if the column name were preferred to display_name.
ManifestOrderNameFirst(rows) ==
    LET kept == SelectSeq(rows, LAMBDA row : Truthy(Or(row.key, row.Key)))
    IN  [ i \in 1..Len(kept) |->
            [ Key     |-> Or(kept[i].key, kept[i].Key),
              Display |-> Or(Or(kept[i].name, kept[i].display_name), "") ] ]

\* The loop of read_manifest over the rows csv.DictReader yields; a row maps
\* each of the columns key, Key, display_name, name to a string or to None
\* (the column is absent from the header or from the row).
ManifestOrder(rows) ==
    LET kept == SelectSeq(rows, LAMBDA row : Truthy(Or(row.key, row.Key)))
    IN  [ i \in 1..Len(kept) |->
            [ Key     |-> Or(kept[i].key, kept[i].Key),
              Display |-> Or(Or(kept[i].display_name, kept[i].name), "") ] ]

\* read_manifest on the store's answer: NoSuchKey and any other exception give
\* None, a body that was read gives the list built from its rows.
read_manifest(resp) ==
    IF resp.kind = "body"
    THEN [ none |-> FALSE, rows |-> ManifestOrder(resp.rows) ]
    ELSE [ none |-> TRUE, rows |-> << >> ]

\* ----------------------------------------------------------------- inputs
\* Values of R2_PREFIX.
PrefixInputs == { "", "/bkt/", "u", "s3://bkt/u/" }

\* Values of SORT_MODE.
SortModes == { "manifest", "name", "last_modified" }

\* Values of OUTPUT_KEY.
OutputKeyInputs == { "" }

\* datetime.utcnow().strftime("%Y%m%d-%H%M%S") at the time of the upload.
Stamps == { "20251101-120000" }

\* What the store may hold: at most MaxListing of the keys, each with a
\* LastModified time.
Buckets ==
    UNION { [ S -> 1..MaxTime ] : S \in { T \in SUBSET StoreKeys : Cardinality(T) <= MaxListing } }

RECURSIVE AscendingKeys(_)
\* The keys of a set in ascending order of their code points.
AscendingKeys(S) ==
    IF S = {} THEN << >>
    ELSE LET least == CHOOSE k \in S : \A j \in S : j = k \/ StrLess(k, j)
         IN  << least >> \o AscendingKeys(S \ { least })

\* q with one pair of neighbours exchanged, in every way.
AdjacentSwaps(q) ==
    { [ q EXCEPT ![i] = q[i + 1], ![i + 1] = q[i] ] : i \in 1..(Len(q) - 1) }

ObjectsOf(bucket, keys) ==
    [ i \in 1..Len(keys) |-> [ Key |-> keys[i], LastModified |-> bucket[keys[i]], Size |-> 1 ] ]

\* The orders in which the paginator may yield a bucket's objects: key order,
\* or key order with one pair of neighbours exchanged.
ListingOrders(bucket) ==
    LET asc == AscendingKeys(DOMAIN bucket) IN { asc } \cup AdjacentSwaps(asc)

RECURSIVE DistinctSeqs(_, _)
\* The sequences of at most n distinct elements of S.
DistinctSeqs(S, n) ==
    IF n = 0 \/ S = {} THEN { << >> }
    ELSE { << >> } \cup UNION { { << x >> \o t : t \in DistinctSeqs(S \ { x }, n - 1) } : x \in S }

\* Answers of the store to the read of manifest.csv.
ManifestResponses ==
    { [ kind |-> "NoSuchKey", rows |-> << >> ], [ kind |-> "error", rows |-> << >> ] }
        \cup { [ kind |-> "body", rows |-> r ] : r \in DistinctSeqs(ManifestRowInputs, MaxRows) }

\* ------------------------------------------------------------------ state
VARIABLES
    pc,           \* the statement of main() that runs next
    PREFIX, OUTPUT_KEY, SORT_MODE, GEN_PRESIGNED,   \* the module's globals
    csv_rows,     \* read_manifest's rows, as csv.DictReader yields them
    manifest,     \* main's manifest: [none, rows]
    objects,      \* main's objects
    ordered,      \* main's ordered
    idx,          \* the loop variable idx of the clip loop
    parts,        \* main's parts
    final_parts,  \* main's final_parts
    filelist,     \* the lines of filelist.txt
    events,       \* the calls made to the store and to the media tools, in order
    exit_status   \* << >> while the process runs, << status >> once it has ended

vars == << pc, PREFIX, OUTPUT_KEY, SORT_MODE, GEN_PRESIGNED, csv_rows, manifest, objects, ordered,
           idx, parts, final_parts, filelist, events, exit_status >>

config == << OUTPUT_KEY, SORT_MODE, GEN_PRESIGNED >>

Event(op, src, dst, ok) == [ op |-> op, src |-> src, dst |-> dst, ok |-> ok ]

intro_image_path == "downloads/" \o INTRO_IMAGE_NAME
intro_clip_path == "clips/000-intro-image.mp4"
tmp_final == "final.mp4"

dl_path(i, key) == "downloads/" \o Fmt03d(i) \o "-" \o PathName(key)
out_path(i) == "clips/" \o Fmt03d(i) \o ".mp4"

Init ==
    /\ pc = "configure"
    /\ PREFIX \in PrefixInputs
    /\ OUTPUT_KEY \in OutputKeyInputs
    /\ SORT_MODE \in SortModes
    /\ GEN_PRESIGNED \in BOOLEAN
    /\ csv_rows = << >>
    /\ manifest = [ none |-> TRUE, rows |-> << >> ]
    /\ objects = << >>
    /\ ordered = << >>
    /\ idx = 0
    /\ parts = << >>
    /\ final_parts = << >>
    /\ filelist = << >>
    /\ events = << >>
    /\ exit_status = << >>

\* The process ends with the given status: sys.exit(status), or an exception
\* nothing catches (status 1), or the return of main() (status 0).
Exit(status) ==
    /\ pc' = "exited"
    /\ exit_status' = << status >>

\* main(), lines 272-279: PREFIX is normalised; an empty PREFIX ends the run.
Configure ==
    /\ pc = "configure"
    /\ PREFIX' = normalize_prefix(PREFIX, BUCKET)
    /\ IF PREFIX' = ""
       THEN Exit(1)
       ELSE pc' = "read_manifest" /\ UNCHANGED exit_status
    /\ UNCHANGED << config, csv_rows, manifest, objects, ordered, idx, parts, final_parts, filelist, events >>

\* main(), lines 282-286: the manifest is read in manifest mode only; a
\* manifest that is truthy (read, with at least one row) gives ordered.
ReadManifest ==
    /\ pc = "read_manifest"
    /\ IF SORT_MODE = "manifest"
       THEN \E resp \in ManifestResponses :
              /\ csv_rows' = resp.rows
              /\ manifest' = read_manifest(resp)
              /\ events' = Append(events,
                                  Event("get_object", ManifestKey(PREFIX), "", resp.kind = "body"))
       ELSE /\ manifest' = [ none |-> TRUE, rows |-> << >> ]
            /\ UNCHANGED << csv_rows, events >>
    /\ IF ~manifest'.none /\ manifest'.rows # << >>
       THEN /\ ordered' = [ i \in 1..Len(manifest'.rows) |->
                              [ Key |-> manifest'.rows[i].Key, Display |-> manifest'.rows[i].Display ] ]
            /\ pc' = "reorder"
       ELSE /\ pc' = "discover"
            /\ UNCHANGED ordered
    /\ UNCHANGED << PREFIX, config, objects, idx, parts, final_parts, filelist, exit_status >>

\* main(), lines 288-297, when the listing fails: the exception ends the run.
DiscoverError ==
    /\ pc = "discover"
    /\ events' = Append(events, Event("list_objects_v2", PREFIX, "", FALSE))
    /\ Exit(1)
    /\ UNCHANGED << PREFIX, config, csv_rows, manifest, objects, ordered, idx, parts, final_parts, filelist >>

\* The listing step if an empty list of videos did not end the run.
DiscoverWithoutEmptyCheck ==
    /\ pc = "discover"
    /\ \E bucket \in Buckets : \E keys \in ListingOrders(bucket) :
       \E found \in { list_video_keys(ObjectsOf(bucket, keys)) } :
       \E sorted \in { SortObjects(found, SORT_MODE) } :
         /\ events' = Append(events, Event("list_objects_v2", PREFIX, "", TRUE))
         /\ objects' = sorted
         /\ ordered' = OrderedOfObjects(sorted)
         /\ pc' = "reorder"
         /\ UNCHANGED exit_status
    /\ UNCHANGED << PREFIX, config, csv_rows, manifest, idx, parts, final_parts, filelist >>

\* main(), lines 288-297: the objects are listed, filtered and sorted; an empty
\* list ends the run.
Discover ==
    /\ pc = "discover"
    /\ \E bucket \in Buckets : \E keys \in ListingOrders(bucket) :
       \E found \in { list_video_keys(ObjectsOf(bucket, keys)) } :
       \E sorted \in { SortObjects(found, SORT_MODE) } :
         /\ events' = Append(events, Event("list_objects_v2", PREFIX, "", TRUE))
         /\ IF found = << >>
            THEN /\ Exit(1)
                 /\ UNCHANGED << objects, ordered >>
            ELSE /\ objects' = sorted
                 /\ ordered' = OrderedOfObjects(sorted)
                 /\ pc' = "reorder"
                 /\ UNCHANGED exit_status
    /\ UNCHANGED << PREFIX, config, csv_rows, manifest, idx, parts, final_parts, filelist >>

\* main(), lines 299-300: the positional override; a missing clip ends the run.
\* csv_rows, manifest and objects are not read after this statement and are
\* dropped here.
Reorder ==
    /\ pc = "reorder"
    /\ IF ordered # << >>
       THEN \E r \in { reorder_clips(ordered) } :
                IF r.ok
                THEN /\ ordered' = r.result
                     /\ pc' = "download"
                     /\ idx' = 1
                     /\ csv_rows' = << >>
                     /\ manifest' = [ none |-> TRUE, rows |-> << >> ]
                     /\ objects' = << >>
                     /\ UNCHANGED exit_status
                ELSE /\ Exit(1)
                     /\ UNCHANGED << ordered, idx, csv_rows, manifest, objects >>
       ELSE /\ pc' = "intro_image"
            /\ UNCHANGED << ordered, idx, csv_rows, manifest, objects, exit_status >>
    /\ UNCHANGED << PREFIX, config, parts, final_parts, filelist, events >>

\* main(), lines 304-311: the clip at position idx is downloaded.
Download ==
    /\ pc = "download"
    /\ \E ok \in BOOLEAN :
         /\ events' = Append(events,
                             Event("download_file", ordered[idx].Key, dl_path(idx, ordered[idx].Key), ok))
         /\ IF ok THEN pc' = "transcode" /\ UNCHANGED exit_status ELSE Exit(1)
    /\ UNCHANGED << PREFIX, config, csv_rows, manifest, objects, ordered, idx, parts, final_parts, filelist >>

\* main(), lines 313-316, and transcode_to_uniform: the downloaded clip is
\* probed and re-encoded; its output joins parts and the loop goes on.
Transcode ==
    /\ pc = "transcode"
    /\ \E outcome \in { "ok", "ffprobe failed", "ffmpeg failed" } :
         LET src_   == dl_path(idx, ordered[idx].Key)
             probe  == Event("ffprobe", src_, "", outcome # "ffprobe failed")
             encode == Event("ffmpeg", src_, out_path(idx), outcome = "ok")
         IN  /\ events' = IF outcome = "ffprobe failed" THEN Append(events, probe)
                          ELSE events \o << probe, encode >>
             /\ IF outcome = "ok"
                THEN /\ parts' = Append(parts, out_path(idx))
                     /\ idx' = idx + 1
                     /\ pc' = IF idx < Len(ordered) THEN "download" ELSE "intro_image"
                     /\ UNCHANGED exit_status
                ELSE /\ Exit(1)
                     /\ UNCHANGED << parts, idx >>
    /\ UNCHANGED << PREFIX, config, csv_rows, manifest, objects, ordered, final_parts, filelist >>

\* The download of the intro image if its failure were swallowed.
DownloadIntroImageIgnoringError ==
    /\ pc = "intro_image"
    /\ \E ok \in BOOLEAN :
         /\ events' = Append(events,
                             Event("download_file", PREFIX \o INTRO_IMAGE_NAME, intro_image_path, ok))
         /\ pc' = "make_slide"
         /\ UNCHANGED exit_status
    /\ UNCHANGED << PREFIX, config, csv_rows, manifest, objects, ordered, idx, parts, final_parts, filelist >>

\* main(), lines 320-329: the intro image is downloaded; the error is raised on.
DownloadIntroImage ==
    /\ pc = "intro_image"
    /\ \E ok \in BOOLEAN :
         /\ events' = Append(events,
                             Event("download_file", PREFIX \o INTRO_IMAGE_NAME, intro_image_path, ok))
         /\ IF ok THEN pc' = "make_slide" /\ UNCHANGED exit_status ELSE Exit(1)
    /\ UNCHANGED << PREFIX, config, csv_rows, manifest, objects, ordered, idx, parts, final_parts, filelist >>

\* The slide step if the slide were not appended after the clips.
MakeSlideWithoutOutro ==
    /\ pc = "make_slide"
    /\ \E ok \in BOOLEAN :
         /\ events' = Append(events, Event("ffmpeg", intro_image_path, intro_clip_path, ok))
         /\ IF ok
            THEN /\ final_parts' = << intro_clip_path >> \o parts
                 /\ pc' = "concat"
                 /\ UNCHANGED exit_status
            ELSE /\ Exit(1)
                 /\ UNCHANGED final_parts
    /\ UNCHANGED << PREFIX, config, csv_rows, manifest, objects, ordered, idx, parts, filelist >>

\* main(), lines 330-335, and make_image_slide: the slide is rendered and the
\* concat sequence is built.
MakeSlide ==
    /\ pc = "make_slide"
    /\ \E ok \in BOOLEAN :
         /\ events' = Append(events, Event("ffmpeg", intro_image_path, intro_clip_path, ok))
         /\ IF ok
            THEN /\ final_parts' = << intro_clip_path >> \o parts \o << intro_clip_path >>
                 /\ pc' = "concat"
                 /\ UNCHANGED exit_status
            ELSE /\ Exit(1)
                 /\ UNCHANGED final_parts
    /\ UNCHANGED << PREFIX, config, csv_rows, manifest, objects, ordered, idx, parts, filelist >>

\* The concat step if the exit status of ffmpeg were not checked.
ConcatenateUnchecked ==
    /\ pc = "concat"
    /\ filelist' = write_concat_list(final_parts)
    /\ \E ok \in BOOLEAN :
         /\ events' = Append(events, Event("ffmpeg", "filelist.txt", tmp_final, ok))
         /\ pc' = "upload"
         /\ UNCHANGED exit_status
    /\ UNCHANGED << PREFIX, config, csv_rows, manifest, objects, ordered, idx, parts, final_parts >>

\* main(), lines 337-342: filelist.txt is written and the parts are joined.
Concatenate ==
    /\ pc = "concat"
    /\ filelist' = write_concat_list(final_parts)
    /\ \E ok \in BOOLEAN :
         /\ events' = Append(events, Event("ffmpeg", "filelist.txt", tmp_final, ok))
         /\ IF ok THEN pc' = "upload" /\ UNCHANGED exit_status ELSE Exit(1)
    /\ UNCHANGED << PREFIX, config, csv_rows, manifest, objects, ordered, idx, parts, final_parts >>

\* main(), lines 344-350: OUTPUT_KEY gets its default and the result is uploaded.
Upload ==
    /\ pc = "upload"
    /\ \E stamp \in Stamps :
         OUTPUT_KEY' = IF OUTPUT_KEY = ""
                       THEN RStrip(PREFIX, "/") \o "/final/Happy40-" \o stamp \o ".mp4"
                       ELSE OUTPUT_KEY
    /\ \E ok \in BOOLEAN :
         /\ events' = Append(events, Event("upload_file", tmp_final, OUTPUT_KEY', ok))
         /\ IF ok THEN pc' = "presign" /\ UNCHANGED exit_status ELSE Exit(1)
    /\ UNCHANGED << PREFIX, SORT_MODE, GEN_PRESIGNED, csv_rows, manifest, objects, ordered, idx, parts,
                    final_parts, filelist >>

\* main(), lines 352-361: the link is generated when asked for, and main returns.
Finish ==
    /\ pc = "presign"
    /\ IF GEN_PRESIGNED
       THEN \E ok \in BOOLEAN :
              /\ events' = Append(events, Event("generate_presigned_url", OUTPUT_KEY, "", ok))
              /\ Exit(IF ok THEN 0 ELSE 1)
       ELSE /\ Exit(0)
            /\ UNCHANGED events
    /\ UNCHANGED << PREFIX, config, csv_rows, manifest, objects, ordered, idx, parts, final_parts, filelist >>

Next ==
    \/ Configure
    \/ ReadManifest
    \/ DiscoverError
    \/ Discover
    \/ Reorder
    \/ Download
    \/ Transcode
    \/ DownloadIntroImage
    \/ MakeSlide
    \/ Concatenate
    \/ Upload
    \/ Finish

Spec == Init /\ [][Next]_vars

\* The runs that order the clips by a listing: SORT_MODE is name or
\* last_modified and no link is asked for.
InitListing ==
    /\ Init
    /\ SORT_MODE \in { "name", "last_modified" }
    /\ ~GEN_PRESIGNED

SpecListing == InitListing /\ [][Next]_vars

\* ============================================================== properties
\* The base names the positional override requires.
Required == { FIRST_VIDEO_ORDER[i] : i \in 1..Len(FIRST_VIDEO_ORDER) } \cup { LAST_VIDEO_NAME }

HasAllRequired(items) ==
    \A n \in Required : \E i \in 1..Len(items) : PathName(items[i].Key) = n

Count(s, x) == Cardinality({ i \in 1..Len(s) : s[i] = x })

\* out holds the clips of inp, each as often as inp does.
IsPermutationOf(out, inp) ==
    /\ Len(out) = Len(inp)
    /\ \A i \in 1..Len(inp) : Count(out, inp[i]) = Count(inp, inp[i])

\* The clips of mid stand in the order they have in inp.
KeepsOrderOf(mid, inp) ==
    \A i, j \in 1..Len(mid) :
        i < j => \E p, q \in 1..Len(inp) : p < q /\ inp[p] = mid[i] /\ inp[q] = mid[j]

\* The clips between the pinned first clips and the pinned last clip.
Middle(out) == SubSeq(out, Len(FIRST_VIDEO_ORDER) + 1, Len(out) - 1)

PositionalOverride(inp, out) ==
    /\ IsPermutationOf(out, inp)
    /\ \A i \in 1..Len(FIRST_VIDEO_ORDER) : PathName(out[i].Key) = FIRST_VIDEO_ORDER[i]
    /\ PathName(out[Len(out)].Key) = LAST_VIDEO_NAME
    /\ KeepsOrderOf(Middle(out), inp)

\* The calls that work on clips or on the final video.
MediaOps == { "download_file", "ffprobe", "ffmpeg", "upload_file", "generate_presigned_url" }

NoMediaWork == \A i \in 1..Len(events) : events[i].op \notin MediaOps

Listed == \E i \in 1..Len(events) : events[i].op = "list_objects_v2" /\ events[i].ok

AbortedWith1 == pc = "exited" /\ exit_status = << 1 >>

\* C1: when the base order holds a clip for every name of FIRST_VIDEO_ORDER and
\* for LAST_VIDEO_NAME, the positional override succeeds and returns a
\* permutation of the base order: the FIRST_VIDEO_ORDER clips in the configured
\* order, then the other clips in the relative order of the input, then the
\* LAST_VIDEO_NAME clip.
Thm_C1 ==
    [][ (pc = "reorder" /\ HasAllRequired(ordered))
            => (pc' = "download" /\ PositionalOverride(ordered, ordered')) ]_vars

\* The override has moved clips of a listing of six videos sorted by name:
\* the name order starts with hayes, the result with max.
Wit_C1 ==
    /\ pc = "download" /\ idx = 1 /\ SORT_MODE = "name"
    /\ Len(ordered) = 6
    /\ PathName(ordered[1].Key) = FIRST_VIDEO_ORDER[1]
    /\ PathName(ordered[6].Key) = LAST_VIDEO_NAME

\* C2: a base order that lacks a required clip ends the run with status 1 at
\* the positional override, and no download, transcode, concatenation or
\* upload is made in that run.
Thm_C2 ==
    (ordered # << >> /\ ~HasAllRequired(ordered))
        => /\ pc = "reorder" \/ AbortedWith1
           /\ NoMediaWork

\* The run has ended at the override for a list of three clips or more.
Wit_C2 ==
    /\ AbortedWith1
    /\ Len(ordered) >= 3
    /\ ~HasAllRequired(ordered)

\* C3: when there are no manifest rows and the listing holds no video, the run
\* ends with status 1 and no download, transcode, concatenation or upload is
\* made.
Thm_C3 ==
    (Listed /\ ordered = << >>)
        => /\ AbortedWith1
           /\ NoMediaWork
           /\ manifest.none \/ manifest.rows = << >>

\* A manifest was read in manifest mode and had no row with a key, and the
\* listing had no video.
Wit_C3 ==
    /\ AbortedWith1
    /\ Listed /\ ordered = << >>
    /\ SORT_MODE = "manifest" /\ ~manifest.none /\ csv_rows # << >>

\* The positions in events of the calls of one kind.
ImageDownloads == { i \in 1..Len(events) :
                      events[i].op = "download_file" /\ events[i].dst = intro_image_path }
SlideRenders == { i \in 1..Len(events) :
                    events[i].op = "ffmpeg" /\ events[i].dst = intro_clip_path }
Concats == { i \in 1..Len(events) : events[i].op = "ffmpeg" /\ events[i].dst = tmp_final }
Uploads == { i \in 1..Len(events) : events[i].op = "upload_file" }
Presigns == { i \in 1..Len(events) : events[i].op = "generate_presigned_url" }
ClipDownloads(k) == { i \in 1..Len(events) :
                        /\ events[i].op = "download_file"
                        /\ events[i].src = ordered[k].Key
                        /\ events[i].dst = dl_path(k, ordered[k].Key) }
ClipProbes(k) == { i \in 1..Len(events) :
                     events[i].op = "ffprobe" /\ events[i].src = dl_path(k, ordered[k].Key) }
ClipTranscodes(k) == { i \in 1..Len(events) :
                         /\ events[i].op = "ffmpeg"
                         /\ events[i].src = dl_path(k, ordered[k].Key)
                         /\ events[i].dst = out_path(k) }
AnyClipTranscodes == { i \in 1..Len(events) :
                         events[i].op = "ffmpeg" /\ events[i].dst \notin { intro_clip_path, tmp_final } }

Succeeded(S) == \E i \in S : events[i].ok

ImageDownloadFailed == \E i \in ImageDownloads : ~events[i].ok

\* C4, as stated: when the intro image cannot be downloaded the run ends
\* before any clip has been transcoded.
Orig_C4 ==
    ImageDownloadFailed => (AbortedWith1 /\ AnyClipTranscodes = {})

\* C4, as the code has it: the intro image is fetched after the clip loop, so
\* when its download fails the run ends with status 1 before the slide is
\* rendered and before concatenation and upload, and by then every clip of the
\* final order has been downloaded and transcoded.
Thm_C4 ==
    ImageDownloadFailed
        => /\ AbortedWith1
           /\ ~events[Len(events)].ok /\ Len(events) \in ImageDownloads
           /\ SlideRenders = {} /\ Concats = {} /\ Uploads = {} /\ Presigns = {}
           /\ final_parts = << >> /\ filelist = << >>
           /\ Len(ordered) >= Cardinality(Required)
           /\ \A k \in 1..Len(ordered) : Succeeded(ClipDownloads(k)) /\ Succeeded(ClipTranscodes(k))

\* The image download has failed after six clips were transcoded.
Wit_C4 ==
    /\ ImageDownloadFailed
    /\ Len(ordered) = 6
    /\ Cardinality(AnyClipTranscodes) = 6

\* C5: a failed call other than the read of the manifest is the last call of
\* the run and the run ends with status 1; no call is made twice; the upload is
\* made only after the prefix was found valid, the order was found non-empty
\* and complete, every clip was downloaded, probed and transcoded, the intro
\* image was downloaded, the slide rendered and the parts joined, all with
\* success; the run ends with status 0 only after the upload succeeded.
Thm_C5 ==
    /\ \A i \in 1..Len(events) :
         (~events[i].ok /\ events[i].op # "get_object") => (i = Len(events) /\ AbortedWith1)
    /\ \A i, j \in 1..Len(events) :
         (i # j) => << events[i].op, events[i].src, events[i].dst >>
                        # << events[j].op, events[j].src, events[j].dst >>
    /\ \A u \in Uploads :
         /\ PREFIX # "" /\ ordered # << >> /\ HasAllRequired(ordered)
         /\ \A k \in 1..Len(ordered) :
              /\ \E i \in ClipDownloads(k) : i < u /\ events[i].ok
              /\ \E i \in ClipProbes(k) : i < u /\ events[i].ok
              /\ \E i \in ClipTranscodes(k) : i < u /\ events[i].ok
         /\ \E i \in ImageDownloads : i < u /\ events[i].ok
         /\ \E i \in SlideRenders : i < u /\ events[i].ok
         /\ \E i \in Concats : i < u /\ events[i].ok
    /\ \A i \in Presigns : \E u \in Uploads : u < i /\ events[u].ok
    /\ exit_status = << 0 >> => Succeeded(Uploads)

\* A run of six clips has uploaded the final video, generated the link and
\* ended with status 0.
Wit_C5 ==
    /\ pc = "exited" /\ exit_status = << 0 >>
    /\ Len(ordered) = 6
    /\ Succeeded(Uploads) /\ Succeeded(Presigns)

\* C9: the concat list written for N clips has N + 2 entries: the slide, the
\* transcoded clips 001..N in the final order, the same slide again; the slide
\* is rendered once; clip k is downloaded, then probed and transcoded, before
\* clip k + 1 is downloaded.
Thm_C9 ==
    filelist # << >>
        => LET N == Len(ordered)
           IN  /\ Len(filelist) = N + 2
               /\ filelist[1] = "file clips/000-intro-image.mp4"
               /\ filelist[N + 2] = filelist[1]
               /\ filelist[2] = "file clips/001.mp4"
               /\ \A k \in 1..N :
                    /\ filelist[k + 1] = "file " \o out_path(k)
                    /\ Cardinality(ClipDownloads(k)) = 1
                    /\ Cardinality(ClipTranscodes(k)) = 1
                    /\ \A d \in ClipDownloads(k) : \A t \in ClipTranscodes(k) :
                         /\ d < t
                         /\ k < N => \A e \in ClipDownloads(k + 1) : t < e
               /\ Cardinality(SlideRenders) = 1
               /\ \A r \in SlideRenders : \A k \in 1..N : \A t \in ClipTranscodes(k) : t < r

\* The concat list of a run of six clips has been written.
Wit_C9 ==
    /\ pc = "upload"
    /\ Len(ordered) = 6
    /\ Len(filelist) = 8

\* ------------------------------------------------------- ordering policies
\* The step of the positional override that succeeds.
OverrideDone == pc = "reorder" /\ pc' = "download"

FromListing == pc = "reorder" /\ objects # << >>

FromManifest == pc = "reorder" /\ SORT_MODE = "manifest" /\ ~manifest.none /\ manifest.rows # << >>

\* The timestamp the listing gave for a key.
TimeOfKey(key) ==
    LET i == CHOOSE j \in 1..Len(objects) : objects[j].Key = key IN objects[i].LastModified

TimeOrdered(items) ==
    \A i, j \in 1..Len(items) : i < j => TimeOfKey(items[i].Key) <= TimeOfKey(items[j].Key)

NameOrdered(items) ==
    \A i, j \in 1..Len(items) : i < j => ~StrLess(Lower(items[j].Key), Lower(items[i].Key))

SameKeys(items, objs) ==
    /\ Len(items) = Len(objs)
    /\ \A i \in 1..Len(objs) : items[i].Key = objs[i].Key /\ items[i].Display = ""

\* C6, as stated: in last_modified mode the final order is non-decreasing in
\* the timestamp of the listing.
Orig_C6 ==
    [][ (FromListing /\ SORT_MODE = "last_modified" /\ OverrideDone) => TimeOrdered(ordered') ]_vars

\* C6, as the code has it: in last_modified mode the base order handed to the
\* positional override is the listing in non-decreasing timestamp order; the
\* final order is the positional override of it, so the FIRST_VIDEO_ORDER clips
\* and the LAST_VIDEO_NAME clip stand where the override puts them whatever
\* their timestamps, and the clips between them are non-decreasing in timestamp.
Thm_C6 ==
    [][ (FromListing /\ SORT_MODE = "last_modified")
            => /\ SameKeys(ordered, objects)
               /\ TimeOrdered(ordered)
               /\ OverrideDone => /\ PositionalOverride(ordered, ordered')
                                   /\ TimeOrdered(Middle(ordered')) ]_vars

\* Six videos were listed in last_modified mode and the clip that the override
\* will put first is the latest of them.
Wit_C6 ==
    /\ FromListing /\ SORT_MODE = "last_modified"
    /\ Len(objects) = 6 /\ HasAllRequired(ordered)
    /\ PathName(objects[6].Key) = FIRST_VIDEO_ORDER[1]
    /\ objects[1].LastModified < objects[6].LastModified

\* C7, as stated: in name mode the final order is the ascending order of the
\* lower-cased keys.
Orig_C7 ==
    [][ (FromListing /\ SORT_MODE = "name" /\ OverrideDone) => NameOrdered(ordered') ]_vars

\* C7, as the code has it: in name mode the base order handed to the
\* positional override is the listing in ascending order of the lower-cased
\* keys; the final order is the positional override of it, and the clips
\* between the pinned ones are in ascending order of the lower-cased keys.
Thm_C7 ==
    [][ (FromListing /\ SORT_MODE = "name")
            => /\ SameKeys(ordered, objects)
               /\ NameOrdered(ordered)
               /\ OverrideDone => /\ PositionalOverride(ordered, ordered')
                                   /\ NameOrdered(Middle(ordered')) ]_vars

\* Six videos were listed in name mode; the key in capitals sorts after the
\* required clips.
Wit_C7 ==
    /\ FromListing /\ SORT_MODE = "name"
    /\ Len(objects) = 6 /\ HasAllRequired(ordered)
    /\ objects[5].Key = "u/Z.MOV" /\ objects[6].Key = "u/z.mov"
    /\ PathName(objects[1].Key) # FIRST_VIDEO_ORDER[1]

\* The rows of a manifest that have a key, each with its key and display name.
RowKey(row) == IF row.key \notin { None, "" } THEN row.key ELSE row.Key
RowDisplay(row) ==
    IF row.display_name \notin { None, "" } THEN row.display_name
    ELSE IF row.name \notin { None, "" } THEN row.name
    ELSE ""
RowsWithKey(rows) ==
    LET kept == SelectSeq(rows, LAMBDA row : RowKey(row) \notin { None, "" })
    IN  [ i \in 1..Len(kept) |-> [ Key |-> RowKey(kept[i]), Display |-> RowDisplay(kept[i]) ] ]

\* C8, as stated: with a manifest in manifest mode the final order is the row
\* order of the manifest, verbatim.
Orig_C8 ==
    [][ (FromManifest /\ OverrideDone) => ordered' = RowsWithKey(csv_rows) ]_vars

\* C8, as the code has it: with a manifest in manifest mode the store is not
\* listed and the base order handed to the positional override is the rows
\* that have a key, in row order, each with the display name of its row; the
\* final order is the positional override of that base order.
Thm_C8 ==
    [][ FromManifest
            => /\ ordered = RowsWithKey(csv_rows)
               /\ \A i \in 1..Len(events) : events[i].op # "list_objects_v2"
               /\ objects = << >>
               /\ OverrideDone => PositionalOverride(ordered, ordered') ]_vars

\* A manifest of six rows, one of them without a key, names every required
\* clip, the LAST_VIDEO_NAME clip in its first row.
Wit_C8 ==
    /\ FromManifest
    /\ Len(csv_rows) = 6 /\ Len(ordered) = 5
    /\ HasAllRequired(ordered)
    /\ PathName(ordered[1].Key) = LAST_VIDEO_NAME
    /\ ordered[1].Display = "Mom and Dad"

RECURSIVE Orderings(_)
\* The sequences that hold every element of S once.
Orderings(S) ==
    IF S = {} THEN { << >> }
    ELSE UNION { { << x >> \o t : t \in Orderings(S \ { x }) } : x \in S }

\* The ways to re-order a list of n elements: element i of the new list is
\* element f[i] of the old one.
Reorderings == [ n \in 0..MaxListing |-> Orderings(1..n) ]

\* The value main() sorts an object by.
SortKeyOf(obj) == IF SORT_MODE = "name" THEN Lower(obj.Key) ELSE obj.LastModified

\* The re-ordering f keeps objects with equal sort keys in the order the run's
\* listing had them in.
KeepsTies(f) ==
    \A i, j \in 1..Len(objects) :
        (i < j /\ f[i] > f[j]) => SortKeyOf(objects[f[i]]) # SortKeyOf(objects[f[j]])

Reordered(f) == [ i \in 1..Len(objects) |-> objects[f[i]] ]

\* What the run makes of a listing: the outcome of the positional override on
\* the sorted listing.
OutcomeOf(listing) == reorder_clips(OrderedOfObjects(SortObjects(listing, SORT_MODE)))

\* The outcome of the override step the run takes.
OutcomeTaken == [ ok |-> pc' = "download", result |-> IF pc' = "download" THEN ordered' ELSE << >> ]

\* C10, as stated, for the runs of SpecListing: the final order does not
\* depend on the order in which the store enumerates the objects, but for
\* objects of equal timestamp when the sort is by timestamp.
Orig_C10 ==
    [][ FromListing
            => \A f \in Reorderings[Len(objects)] :
                 (SORT_MODE = "name" \/ KeepsTies(f)) => OutcomeOf(Reordered(f)) = OutcomeTaken ]_vars

\* C10, as the code has it, for the runs of SpecListing: the final order does
\* not depend on the order in which the store enumerates the objects, but for
\* objects of equal sort key: equal timestamps when the sort is by timestamp,
\* keys equal up to letter case when the sort is by name.
Thm_C10 ==
    [][ FromListing
            => \A f \in Reorderings[Len(objects)] :
                 KeepsTies(f) => OutcomeOf(Reordered(f)) = OutcomeTaken ]_vars

\* Six videos were listed in name mode, two of them with keys equal up to
\* letter case, and the override is about to succeed.
Wit_C10 ==
    /\ FromListing /\ SORT_MODE = "name"
    /\ Len(objects) = 6 /\ HasAllRequired(ordered)
    /\ Lower(objects[5].Key) = Lower(objects[6].Key)
====
